---- MODULE Spec2Model ----
(***************************************************************************)
(* Model of the AMQP consumer of cyverse-de/qms-adapter (package amqp):    *)
(* New, AMQP.recv and AMQP.Close, together with the broker they talk to.   *)
(* recv is cut at its blocking calls: delivery.Ack, delivery.Reject (with  *)
(* the decode that precedes it) and the handler call.  Every call recv     *)
(* makes is recorded in the history variable log, and so is the call of    *)
(* Close.  The handler is the one main installs (getHandler).              *)
(***************************************************************************)
EXTENDS Integers, Sequences, FiniteSets, TLC

\* Number of messages published to the exchange in one run.
MaxMsgs == 2

\* Cap on the deliveries of one run; above what recv's requeue policy allows.
MaxDeliv == 2 * MaxMsgs + 1

VARIABLES
    newResult,      \* what New returned: "none" (not called yet), "ok", "error"
    dialFailed,     \* messaging.NewClient returned an error
    bindRejected,   \* the broker rejected the bind made by AddConsumer
    bound,          \* the consumer is bound and receives deliveries
    singleAck,      \* the broker drops a reject of an already acked delivery
    closed,         \* AMQP.Close was called
    msgs,           \* msgs[m]: index in Bodies of the body of message m
    queue,          \* messages ready at the broker, in order
    redel,          \* messages the broker flags as redelivered
    deliveries,     \* deliveries[d]: the amqp.Delivery with tag d
    unacked,        \* delivery tags outstanding at the broker
    pc,             \* position of the receive loop
    log,            \* calls made by recv, and the call of Close, in order
    config,         \* the Configuration main hands to getHandler
    consumer,       \* the fields of the AMQP value New builds
    mainLog,        \* fields of the package-level logger of package main
    posts           \* requests handed to the HTTP client, in order

vars == <<newResult, dialFailed, bindRejected, bound, singleAck, closed, msgs,
          queue, redel, deliveries, unacked, pc, log, config, consumer,
          mainLog, posts>>

brokerVars == <<queue, redel, unacked>>
setupVars == <<newResult, dialFailed, bindRejected, bound, singleAck, config, consumer>>
handlerVars == <<mainLog, posts>>

----------------------------------------------------------------------------
(* Bodies and decoding *)

\* The json tags of QMSUpdate.
Keys == {"attribute", "value", "unit", "user_id", "username"}

\* The json tags of the first version of QMSUpdate.
LegacyKeys == {"attribute", "value", "unit"}

Str(s) == [t |-> "string", v |-> s]
Num(s) == [t |-> "number", v |-> s]

\* Bodies a producer may publish: text that is not JSON, the three-key
\* document, a document with all keys and an unknown one whose value is not a
\* numeral, and a document whose value is a JSON number.
Bodies ==
    << [json |-> FALSE, fields |-> [k \in {} |-> Str("")]],
       [json |-> TRUE,
        fields |-> ("attribute" :> Str("cpu.hours")) @@ ("value" :> Str("3.5"))
                   @@ ("unit" :> Str("hours"))],
       [json |-> TRUE,
        fields |-> ("attribute" :> Str("data.size")) @@ ("value" :> Str("n/a"))
                   @@ ("unit" :> Str("bytes")) @@ ("user_id" :> Str("u1"))
                   @@ ("username" :> Str("ipcdev")) @@ ("extra" :> Num("1"))],
       [json |-> TRUE,
        fields |-> ("attribute" :> Str("cpu.hours")) @@ ("value" :> Num("3.5"))
                   @@ ("unit" :> Str("hours"))] >>

BodyIds == 1..Len(Bodies)

\* The zero value of QMSUpdate.
ZeroUpdate == [k \in Keys |-> ""]

\* json.Unmarshal into the first version of QMSUpdate (three fields).
UnmarshalLegacy(b) ==
    [err |-> ~b.json \/ \E k \in (DOMAIN b.fields) \cap LegacyKeys :
                            b.fields[k].t # "string",
     update |-> [k \in Keys |->
                   IF b.json /\ k \in LegacyKeys /\ k \in DOMAIN b.fields
                      /\ b.fields[k].t = "string"
                   THEN b.fields[k].v ELSE ""]]

\* json.Unmarshal(delivery.Body, &update): fails on text that is not JSON and
\* on a known key whose value is not a JSON string; unknown keys are skipped,
\* absent keys leave the zero value.
Unmarshal(b) ==
    [err |-> ~b.json \/ \E k \in (DOMAIN b.fields) \cap Keys :
                            b.fields[k].t # "string",
     update |-> [k \in Keys |->
                   IF b.json /\ k \in DOMAIN b.fields /\ b.fields[k].t = "string"
                   THEN b.fields[k].v ELSE ""]]

----------------------------------------------------------------------------
(* The decisions of New and recv *)

\* New returns the error of messaging.NewClient; AddConsumer returns nothing.
NewReturn(dialErr, bindErr) ==
    IF dialErr THEN "error" ELSE "ok"

AckMultipleAll == TRUE

\* delivery.Ack(false)
AckMultiple == FALSE

AfterAckIgnoringError(ok) == "acked"

AfterAckInverted(ok) == IF ok THEN "idle" ELSE "acked"

\* if err = delivery.Ack(false); err != nil { log.Error(err); return }
AfterAck(ok) == IF ok THEN "acked" ELSE "idle"

RejectRequeueSame(redelivered) == redelivered

RejectRequeueAlways(redelivered) == TRUE

\* delivery.Reject(!redelivered)
RejectRequeue(redelivered) == ~redelivered

ReturnsAfterRejectMissing == FALSE

\* the return that ends the decode-failure branch
ReturnsAfterReject == TRUE

AfterDispatchAsync == "idle"

\* a.handler(ctx, &update) is a plain call: recv waits for it
AfterDispatch == "handler"

AfterHandlerRetry(ok) == IF ok THEN "idle" ELSE "acked"

\* the handler returns nothing; recv returns after the call whatever happened
AfterHandler(ok) == "idle"

----------------------------------------------------------------------------
(* The handler of package main *)

\* The Configuration values getHandler can be given: QMS enabled or not, and
\* whether url.Parse accepts QMSEndpoint.
Configurations ==
    {[QMSEnabled |-> TRUE, endpointParses |-> TRUE],
     [QMSEnabled |-> FALSE, endpointParses |-> TRUE],
     [QMSEnabled |-> TRUE, endpointParses |-> FALSE]}

\* strconv.ParseFloat(update.Value, 64) on the value strings of Bodies: the
\* decimal numeral parses, "n/a" and the empty string are syntax errors.
ParseFloatOk(v) == v = "3.5"

\* What the I/O of one handler run does: nothing fails, http.NewRequest
\* fails, client.Do fails, reading the response fails.
IOOutcomes == {"none", "newRequest", "do", "readAll"}

HandlerNoFloatCheck(u, io) ==
    [logger |-> mainLog \cup {"context"},
     sent |-> config.endpointParses /\ config.QMSEnabled /\ io # "newRequest",
     ok |-> config.endpointParses /\ (~config.QMSEnabled \/ io = "none")]

\* One run of the closure getHandler returns: the logger it leaves in the
\* package-level variable log, whether it handed a POST to the HTTP client,
\* and whether it ran without an error.
Handler(u, io) ==
    LET logger == mainLog \cup {"context"}
    IN IF ~config.endpointParses THEN [logger |-> logger, sent |-> FALSE, ok |-> FALSE]
       ELSE IF ~config.QMSEnabled THEN [logger |-> logger, sent |-> FALSE, ok |-> TRUE]
       ELSE IF ~ParseFloatOk(u.value) THEN [logger |-> logger, sent |-> FALSE, ok |-> FALSE]
       ELSE IF io = "newRequest" THEN [logger |-> logger, sent |-> FALSE, ok |-> FALSE]
       ELSE [logger |-> logger, sent |-> TRUE, ok |-> io = "none"]

----------------------------------------------------------------------------
(* The log *)

Ev(d, op, flag, ok, u) == [d |-> d, op |-> op, flag |-> flag, ok |-> ok, update |-> u]

Tags == 1..Len(deliveries)
Cur == Len(deliveries)

Idx(d, op) == {i \in 1..Len(log) : log[i].d = d /\ log[i].op = op}
IdxOf(d) == {i \in 1..Len(log) : log[i].d = d}
Count(d, op) == Cardinality(Idx(d, op))

\* Handler invocations that have not returned.
Running == {d \in Tags : Count(d, "handler") > Count(d, "return")}

\* recv has returned for delivery d.
Done(d) == d \in Tags /\ (d < Cur \/ pc = "idle")

BodyOfMsg(m) == Bodies[msgs[m]]
BodyOf(d) == BodyOfMsg(deliveries[d].msg)

\* Results a transport call can have: an error once the connection is closed.
TransportResults == IF closed THEN {FALSE} ELSE BOOLEAN

----------------------------------------------------------------------------
(* The broker *)

Requeue(m) ==
    /\ queue' = Append(queue, m)
    /\ redel' = redel \cup {m}

\* What an ack that reached the broker does to the outstanding deliveries.
BrokerAck(d, multiple, ok) ==
    /\ unacked' = IF ~ok THEN unacked
                  ELSE IF multiple THEN {t \in unacked : t > d}
                  ELSE unacked \ {d}
    /\ UNCHANGED <<queue, redel>>

\* What a reject that reached the broker does: an outstanding delivery is
\* settled and requeued if asked; a delivery already acked is left alone by a
\* broker that settles a delivery once, and requeued if asked by one that
\* does not.
BrokerReject(d, requeue, ok) ==
    LET m == deliveries[d].msg
        honoured == ok /\ (d \in unacked \/ ~singleAck)
    IN /\ unacked' = IF ok THEN unacked \ {d} ELSE unacked
       /\ IF honoured /\ requeue
          THEN Requeue(m)
          ELSE UNCHANGED <<queue, redel>>

\* A message arrives on the queue: fresh, or flagged as redelivered because
\* an earlier connection received it and went away without settling it.
Publish ==
    /\ Len(msgs) < MaxMsgs
    /\ \E b \in BodyIds, r \in BOOLEAN :
        /\ msgs' = Append(msgs, b)
        /\ queue' = Append(queue, Len(msgs) + 1)
        /\ redel' = IF r THEN redel \cup {Len(msgs) + 1} ELSE redel
    /\ UNCHANGED <<setupVars, closed, deliveries, unacked, pc, log, handlerVars>>

----------------------------------------------------------------------------
(* The consumer *)

New ==
    /\ newResult = "none"
    /\ \E dialErr \in BOOLEAN, bindErr \in BOOLEAN :
        /\ dialFailed' = dialErr
        /\ bindRejected' = (~dialErr /\ bindErr)
        /\ bound' = (~dialErr /\ ~bindErr)
        /\ newResult' = NewReturn(dialErr, ~dialErr /\ bindErr)
        /\ consumer' = IF dialErr THEN consumer
                       ELSE [client |-> "client", handler |-> "getHandler"]
    /\ UNCHANGED <<singleAck, config, closed, msgs, brokerVars, deliveries, pc, log,
                   handlerVars>>

\* The transport hands the next delivery to recv.
Deliver ==
    /\ newResult = "ok" /\ bound /\ ~closed
    /\ pc = "idle"
    /\ queue # <<>>
    /\ Len(deliveries) < MaxDeliv
    /\ LET m == Head(queue)
       IN /\ deliveries' = Append(deliveries, [msg |-> m, redelivered |-> m \in redel])
          /\ unacked' = unacked \cup {Len(deliveries) + 1}
          /\ queue' = Tail(queue)
    /\ pc' = "recv"
    /\ UNCHANGED <<setupVars, closed, msgs, redel, log, handlerVars>>

RecvAck ==
    /\ pc = "recv"
    /\ \E ok \in TransportResults :
        /\ log' = Append(log, Ev(Cur, "ack", AckMultiple, ok, ZeroUpdate))
        /\ BrokerAck(Cur, AckMultiple, ok)
        /\ pc' = AfterAck(ok)
    /\ UNCHANGED <<setupVars, closed, msgs, deliveries, handlerVars>>

RecvDecode ==
    /\ pc = "acked"
    /\ LET d == Cur
           r == Unmarshal(BodyOf(d))
           requeue == RejectRequeue(deliveries[d].redelivered)
           decoded == Ev(d, "decode", FALSE, ~r.err, ZeroUpdate)
           called == Ev(d, "handler", FALSE, TRUE, r.update)
       IN IF r.err
          THEN \E ok \in TransportResults :
                /\ log' = log \o <<decoded, Ev(d, "reject", requeue, ok, ZeroUpdate)>>
                              \o (IF ReturnsAfterReject THEN <<>> ELSE <<called>>)
                /\ BrokerReject(d, requeue, ok)
                /\ pc' = IF ReturnsAfterReject THEN "idle" ELSE AfterDispatch
          ELSE /\ log' = log \o <<decoded, called>>
               /\ pc' = AfterDispatch
               /\ UNCHANGED brokerVars
    /\ UNCHANGED <<setupVars, closed, msgs, deliveries, handlerVars>>

\* The event a handler invocation was given.
UpdateOf(d) == log[CHOOSE i \in Idx(d, "handler") : TRUE].update

\* A handler invocation runs to its end and returns; the return event records
\* whether it got through without an error of its own.
HandlerReturn ==
    /\ \E d \in Running, io \in IOOutcomes :
        LET h == Handler(UpdateOf(d), io)
        IN /\ log' = Append(log, Ev(d, "return", FALSE, h.ok, ZeroUpdate))
           /\ mainLog' = h.logger
           /\ posts' = IF h.sent
                        THEN Append(posts, [d |-> d,
                                            resource_name |-> UpdateOf(d).attribute,
                                            usage_value |-> UpdateOf(d).value])
                        ELSE posts
           /\ pc' = IF pc = "handler" /\ d = Cur THEN AfterHandler(h.ok) ELSE pc
    /\ UNCHANGED <<setupVars, closed, msgs, brokerVars, deliveries>>

\* a.client.Close(), from the goroutine that called New.
Close ==
    /\ newResult = "ok"
    /\ ~closed
    /\ closed' = TRUE
    /\ log' = Append(log, Ev(0, "close", FALSE, TRUE, ZeroUpdate))
    /\ UNCHANGED <<setupVars, msgs, brokerVars, deliveries, pc, handlerVars>>

----------------------------------------------------------------------------

Init ==
    /\ newResult = "none"
    /\ dialFailed = FALSE
    /\ bindRejected = FALSE
    /\ bound = FALSE
    /\ singleAck \in BOOLEAN
    /\ closed = FALSE
    /\ msgs = <<>>
    /\ queue = <<>>
    /\ redel = {}
    /\ deliveries = <<>>
    /\ unacked = {}
    /\ pc = "idle"
    /\ log = <<>>
    /\ config \in Configurations
    /\ consumer = [client |-> "nil", handler |-> "nil"]
    /\ mainLog = {"package"}
    /\ posts = <<>>

Next ==
    \/ Publish
    \/ New
    \/ Deliver
    \/ RecvAck
    \/ RecvDecode
    \/ HandlerReturn
    \/ Close

Spec == Init /\ [][Next]_vars

\* The transport keeps delivering while it is open, transport calls return
\* and handlers return.
FairSpec ==
    /\ Spec
    /\ WF_vars(Deliver)
    /\ WF_vars(RecvAck)
    /\ WF_vars(RecvDecode)
    /\ WF_vars(HandlerReturn)

----------------------------------------------------------------------------
(* Vocabulary of the properties *)

\* The body is a JSON document whose known keys all hold strings.
WellFormed(b) ==
    /\ b.json
    /\ \A k \in Keys : k \in DOMAIN b.fields => b.fields[k].t = "string"

\* The string the body gives for key k, empty when the key is absent.
Member(b, k) == IF k \in DOMAIN b.fields THEN b.fields[k].v ELSE ""

AckOk(d) == \E i \in Idx(d, "ack") : log[i].ok
AckFailed(d) == \E i \in Idx(d, "ack") : ~log[i].ok
Dispatched(d) == Count(d, "handler") >= 1
Discarded(d) == Count(d, "reject") >= 1

DelivOf(m) == {d \in Tags : deliveries[d].msg = m}
InQueue(m) == \E i \in 1..Len(queue) : queue[i] = m
Requeues(m) == Cardinality(DelivOf(m)) + (IF InQueue(m) THEN 1 ELSE 0) - 1
Consuming == newResult = "ok" /\ bound /\ ~closed

----------------------------------------------------------------------------
(* C1 *)

\* C1 as stated: once recv has returned for a delivery, exactly one of
\* {handler invoked, rejected} has happened, whatever ack returned.
C1_ExactlyOneOutcome ==
    \A d \in Tags : Done(d) => (Dispatched(d) /\ ~Discarded(d)) \/ (Discarded(d) /\ ~Dispatched(d))

\* C1 as amended: a delivery is never both dispatched and rejected; once recv
\* has returned, a delivery whose ack succeeded has exactly one of the two
\* outcomes and a delivery whose ack failed has neither.
C1_ExactlyOneOutcomeAfterAck ==
    \A d \in Tags :
        /\ ~(Dispatched(d) /\ Discarded(d))
        /\ Done(d) /\ AckOk(d) => Dispatched(d) \/ Discarded(d)
        /\ Done(d) /\ AckFailed(d) => ~Dispatched(d) /\ ~Discarded(d)

C1_Witness ==
    /\ \E d \in Tags : Done(d) /\ AckOk(d) /\ Dispatched(d)
    /\ \E d \in Tags : Done(d) /\ AckOk(d) /\ Discarded(d)
    /\ \E d \in Tags : Done(d) /\ AckFailed(d)

----------------------------------------------------------------------------
(* C2 *)

\* C2: recv calls ack at most once on a delivery and exactly once by the time
\* it makes any other call or returns; the call has multiple=false, comes
\* before the decode, the reject and the handler call of that delivery, and
\* settles no other delivery: a delivery that no successful call of its own
\* settled is still outstanding at the broker.
C2_AckOnceFirstSingle ==
    \A d \in Tags :
        /\ Count(d, "ack") <= 1
        /\ Done(d) \/ IdxOf(d) # {} =>
              /\ Count(d, "ack") = 1
              /\ \A i \in Idx(d, "ack") :
                    /\ log[i].flag = FALSE
                    /\ \A j \in IdxOf(d) : i <= j
        /\ ~(\E i \in IdxOf(d) : log[i].op \in {"ack", "reject"} /\ log[i].ok)
              => d \in unacked

C2_Witness ==
    \E d1, d2 \in Tags :
        /\ d1 < d2
        /\ AckFailed(d1) /\ d1 \in unacked
        /\ Done(d2) /\ AckOk(d2) /\ Count(d2, "decode") = 1

----------------------------------------------------------------------------
(* C3 *)

\* C3 as stated: once recv has returned for a delivery, it has made exactly
\* one ack-or-reject call on it.
C3_OneSettlingCall ==
    \A d \in Tags : Done(d) => Count(d, "ack") + Count(d, "reject") = 1

----------------------------------------------------------------------------
(* C4 *)

\* C4 as stated: once recv has returned for a delivery whose body does not
\* decode, it has made exactly one reject call, with requeue = ~redelivered,
\* and no handler call.
C4_RejectOnUndecodable ==
    \A d \in Tags :
        Done(d) /\ ~WellFormed(BodyOf(d)) =>
            /\ Count(d, "reject") = 1
            /\ \A i \in Idx(d, "reject") : log[i].flag = ~deliveries[d].redelivered
            /\ Count(d, "handler") = 0

\* C4 as amended: for a delivery whose body does not decode the handler is
\* never invoked and every reject call has requeue = ~redelivered; once recv
\* has returned, there is exactly one reject call if the ack succeeded and
\* none if the ack failed.
C4_RejectOnUndecodableAfterAck ==
    \A d \in Tags :
        ~WellFormed(BodyOf(d)) =>
            /\ Count(d, "handler") = 0
            /\ \A i \in Idx(d, "reject") : log[i].flag = ~deliveries[d].redelivered
            /\ Done(d) /\ AckOk(d) => Count(d, "reject") = 1
            /\ Done(d) /\ AckFailed(d) => Count(d, "reject") = 0

C4_Witness ==
    \E d1, d2 \in Tags :
        /\ Done(d1) /\ Done(d2)
        /\ ~WellFormed(BodyOf(d1)) /\ ~WellFormed(BodyOf(d2))
        /\ ~deliveries[d1].redelivered /\ deliveries[d2].redelivered
        /\ \E i \in Idx(d1, "reject") : log[i].flag = TRUE
        /\ \E i \in Idx(d2, "reject") : log[i].flag = FALSE

----------------------------------------------------------------------------
(* C5 *)

\* C5 as stated: once recv has returned for a delivery with a well-formed
\* body, it has made no reject call and exactly one handler call, whose event
\* carries the strings of the body.
C5_DispatchOnWellFormed ==
    \A d \in Tags :
        Done(d) /\ WellFormed(BodyOf(d)) =>
            /\ Count(d, "reject") = 0
            /\ Count(d, "handler") = 1
            /\ \A i \in Idx(d, "handler") :
                  \A k \in Keys : log[i].update[k] = Member(BodyOf(d), k)

\* C5 as amended: a delivery with a well-formed body is never rejected and
\* every handler call made for it carries the strings of the body; once recv
\* has returned there is exactly one handler call if the ack succeeded and
\* none if the ack failed; for either value of the redelivered flag.
C5_DispatchOnWellFormedAfterAck ==
    \A d \in Tags :
        WellFormed(BodyOf(d)) =>
            /\ Count(d, "reject") = 0
            /\ Count(d, "handler") <= 1
            /\ \A i \in Idx(d, "handler") :
                  \A k \in Keys : log[i].update[k] = Member(BodyOf(d), k)
            /\ (Done(d) \/ pc = "handler") /\ AckOk(d) /\ Count(d, "decode") = 1
                  => Count(d, "handler") = 1
            /\ Done(d) /\ AckOk(d) => Count(d, "handler") = 1
            /\ Done(d) /\ AckFailed(d) => Count(d, "handler") = 0

C5_Witness ==
    \E d1, d2 \in Tags :
        /\ Done(d1) /\ Done(d2)
        /\ ~deliveries[d1].redelivered /\ deliveries[d2].redelivered
        /\ \E i \in Idx(d1, "handler") :
              log[i].update.attribute = "cpu.hours" /\ log[i].update.value = "3.5"
              /\ log[i].update.unit = "hours" /\ log[i].update.username = ""
        /\ \E i \in Idx(d2, "handler") :
              log[i].update.user_id = "u1" /\ log[i].update.username = "ipcdev"

----------------------------------------------------------------------------
(* C6 *)

\* C6: a delivery whose ack call returned an error gets no other call (no
\* decode, no reject, no handler call) and recv has returned for it.
C6_AckErrorAbandons ==
    \A d \in Tags :
        AckFailed(d) =>
            /\ \A i \in IdxOf(d) : log[i].op = "ack"
            /\ Done(d)

C6_Witness ==
    \E d1, d2 \in Tags :
        /\ d1 < d2
        /\ AckFailed(d1) /\ ~WellFormed(BodyOf(d1))
        /\ AckFailed(d2) /\ WellFormed(BodyOf(d2))

----------------------------------------------------------------------------
(* C7 *)

\* C7: a message whose body does not decode is delivered to the consumer at
\* most twice and requeued at most once, and while the consumer is consuming
\* it eventually leaves the queue for good.
C7_RequeueOnceThenDiscard ==
    /\ [](\A m \in 1..Len(msgs) :
            ~WellFormed(BodyOfMsg(m)) =>
                Cardinality(DelivOf(m)) <= 2 /\ Requeues(m) <= 1)
    /\ \A m \in 1..MaxMsgs :
          <>[](\/ ~Consuming
               \/ m > Len(msgs)
               \/ ~InQueue(m))

C7_Witness ==
    \E m \in 1..Len(msgs) :
        /\ ~WellFormed(BodyOfMsg(m))
        /\ Cardinality(DelivOf(m)) = 2
        /\ \A d \in DelivOf(m) : Done(d) /\ Discarded(d)
        /\ ~InQueue(m)

----------------------------------------------------------------------------
(* C8 *)

\* C8 as stated: a message whose first delivery (redelivered=false) failed to
\* decode and was rejected without error is requeued: it is in the queue or
\* has been delivered again with redelivered=true.
C8_SingleRetry ==
    \A d \in Tags :
        ( /\ Done(d)
          /\ ~deliveries[d].redelivered
          /\ \E i \in Idx(d, "decode") : ~log[i].ok
          /\ \E i \in Idx(d, "reject") : log[i].ok )
        => \/ InQueue(deliveries[d].msg)
           \/ \E e \in Tags : e > d /\ deliveries[e].msg = deliveries[d].msg
                              /\ deliveries[e].redelivered

----------------------------------------------------------------------------
(* C9 *)

\* C9: handler calls are made in the order of arrival of their deliveries,
\* and a handler call has returned before the next one is made.
C9_HandlerOrder ==
    \A i, j \in 1..Len(log) :
        i < j /\ log[i].op = "handler" /\ log[j].op = "handler" =>
            /\ log[i].d < log[j].d
            /\ \E k \in 1..Len(log) :
                  i < k /\ k < j /\ log[k].op = "return" /\ log[k].d = log[i].d

C9_Witness ==
    \E i, j \in 1..Len(log) :
        i < j /\ log[i].op = "handler" /\ log[j].op = "handler"

----------------------------------------------------------------------------
(* C10 *)

\* C10 as stated, counting a failure to connect as a setup failure that comes
\* before the bind: once New has returned, a rejected bind was reported as an
\* error, and an error was reported only for a setup failure.
C10_NewFailsIffBindRejected ==
    newResult # "none" =>
        /\ bindRejected => newResult = "error"
        /\ newResult = "error" => bindRejected \/ dialFailed

----------------------------------------------------------------------------
(* C11 *)

\* C11 as stated, for a delivery recv already holds when Close is called:
\* once Close has been called, recv starts no handler invocation.
C11_NothingStartsAfterClose ==
    \A i, j \in 1..Len(log) :
        i < j /\ log[i].op = "close" => log[j].op # "handler"

----------------------------------------------------------------------------
(* C12 *)

\* C12: a handler call is made for a delivery only after a successful ack of
\* that delivery, when the delivery is no longer outstanding at the broker; a
\* message is dispatched at most once over all its deliveries, and once it has
\* been dispatched it is never in the queue and never delivered again,
\* whatever the handler did.
C12_DispatchAfterAckAtMostOnce ==
    /\ \A i \in 1..Len(log) :
          log[i].op = "handler" =>
              /\ \E j \in 1..(i - 1) :
                    log[j].op = "ack" /\ log[j].d = log[i].d /\ log[j].ok
              /\ log[i].d \notin unacked
    /\ \A m \in 1..Len(msgs) :
          /\ Cardinality({i \in 1..Len(log) :
                            log[i].op = "handler" /\ log[i].d \in DelivOf(m)}) <= 1
          /\ \A d \in DelivOf(m) :
                Dispatched(d) => ~InQueue(m) /\ \A e \in DelivOf(m) : e <= d

C12_Witness ==
    \E d \in Tags :
        /\ Done(d)
        /\ \E i \in Idx(d, "return") : ~log[i].ok
        /\ ~InQueue(deliveries[d].msg)
        /\ Cur > d

----------------------------------------------------------------------------
(* C13 *)

\* recv has nothing more to do for delivery d.
Finished(d) ==
    \E i \in 1..Len(log) :
        /\ log[i].d = d
        /\ log[i].op \in {"reject", "return"} \/ (log[i].op = "ack" /\ ~log[i].ok)

InProgress(d) == (\E i \in 1..Len(log) : log[i].d = d) /\ ~Finished(d)

\* C13: at most one delivery is between its ack call and the return of its
\* handler or reject call, and a delivery is handed to recv only when every
\* earlier one is finished: all calls of an earlier delivery come before all
\* calls of a later one.
C13_OneAtATime ==
    /\ Cardinality({d \in Tags : InProgress(d)}) <= 1
    /\ \A d \in Tags : d < Cur => Finished(d)
    /\ \A i, j \in 1..Len(log) :
          i < j /\ log[i].d # 0 /\ log[j].d # 0 => log[i].d <= log[j].d

C13_Witness ==
    /\ Cur = 2
    /\ Count(1, "return") = 1
    /\ pc = "handler"
    /\ InProgress(2) /\ Dispatched(2)

----------------------------------------------------------------------------
(* C14 *)

\* The calls made for delivery d, in order.
OpsOf(d) ==
    LET S == SelectSeq(log, LAMBDA e : e.d = d)
    IN [i \in 1..Len(S) |-> S[i].op]

IsPrefix(s, t) == Len(s) <= Len(t) /\ SubSeq(t, 1, Len(s)) = s

DispatchPath == <<"ack", "decode", "handler", "return">>
RejectPath == <<"ack", "decode", "reject">>
AbandonPath == <<"ack">>

\* C14 as stated: the calls made for a delivery follow Received ->
\* Acknowledged -> Dispatched or Received -> Acknowledged -> Rejected, and
\* once recv has returned the delivery has reached the end of one of the two.
C14_TwoTerminalStates ==
    \A d \in Tags :
        LET ops == OpsOf(d)
        IN /\ IsPrefix(ops, DispatchPath) \/ IsPrefix(ops, RejectPath)
           /\ Done(d) => AckOk(d) /\ ops \in {DispatchPath, RejectPath}

\* C14 as amended: the calls made for a delivery follow one of the two paths,
\* each call made once; once recv has returned, a delivery whose ack
\* succeeded is at the end of one of the two paths and a delivery whose ack
\* failed has stopped at Received, with the ack its only call.
C14_TerminalStatesAfterAck ==
    \A d \in Tags :
        LET ops == OpsOf(d)
        IN /\ IsPrefix(ops, DispatchPath) \/ IsPrefix(ops, RejectPath)
           /\ Len(ops) > 1 => AckOk(d)
           /\ Done(d) => \/ AckOk(d) /\ ops \in {DispatchPath, RejectPath}
                         \/ AckFailed(d) /\ ops = AbandonPath

C14_Witness ==
    \E d1, d2, d3 \in Tags :
        /\ Done(d1) /\ Done(d2) /\ Done(d3)
        /\ OpsOf(d1) = DispatchPath
        /\ OpsOf(d2) = RejectPath
        /\ OpsOf(d3) = AbandonPath

----------------------------------------------------------------------------
(* C15 *)

\* What the consumer does for a delivery whose handler invocation has
\* returned does not depend on how it went.
NoReactionToHandler ==
    \A d \in Tags :
        Count(d, "return") >= 1 =>
            /\ OpsOf(d) = DispatchPath
            /\ d \notin unacked
            /\ ~InQueue(deliveries[d].msg)
            /\ \A e \in DelivOf(deliveries[d].msg) : e <= d

\* C15: the step in which a handler invocation returns changes nothing of the
\* consumer and the broker but the log entry that records it, and leaves recv
\* at the same place, for a failed and for a succeeded invocation alike; so
\* two runs that differ only in handler outcomes make the same calls.  In
\* particular a delivery whose handler returned, with or without a failure,
\* has exactly the calls of the dispatch path, is not rejected, and its
\* message is not requeued or delivered again.
C15_HandlerOutcomeOpaque ==
    /\ [][ (Len(log') = Len(log) + 1 /\ log'[Len(log')].op = "return") =>
             /\ pc' = "idle"
             /\ UNCHANGED <<setupVars, closed, msgs, brokerVars, deliveries>> ]_vars
    /\ []NoReactionToHandler

C15_Witness ==
    \E d1, d2 \in Tags :
        /\ Done(d1) /\ Done(d2)
        /\ \E i \in Idx(d1, "return") : log[i].ok
        /\ \E i \in Idx(d2, "return") : ~log[i].ok
        /\ OpsOf(d1) = OpsOf(d2)

----------------------------------------------------------------------------
(* C16 *)

\* C16: a reject call or an ack call that returned an error is the last call
\* made for its delivery and is made once, recv returns, and a later delivery
\* whose ack succeeds is dispatched or rejected as its body demands.
C16_FailedCallNotRetried ==
    \A d \in Tags :
        (\E i \in IdxOf(d) : log[i].op \in {"ack", "reject"} /\ ~log[i].ok) =>
            /\ \A i \in IdxOf(d) :
                  log[i].op \in {"ack", "reject"} /\ ~log[i].ok =>
                      \A j \in IdxOf(d) : j <= i
            /\ Count(d, "ack") = 1
            /\ Count(d, "reject") <= 1
            /\ Count(d, "handler") = 0
            /\ Done(d)
            /\ \A e \in Tags :
                  e > d /\ Done(e) /\ AckOk(e) =>
                      IF WellFormed(BodyOf(e)) THEN OpsOf(e) = DispatchPath
                                               ELSE OpsOf(e) = RejectPath

C16_Witness ==
    \E d, e \in Tags :
        /\ d < e
        /\ \E i \in Idx(d, "reject") : ~log[i].ok
        /\ Done(e) /\ AckOk(e) /\ Dispatched(e)

----------------------------------------------------------------------------
(* C17 *)

\* C17: when transport calls and handler invocations return, recv returns
\* for every delivery it is given, and it has then ended in a failed ack, a
\* reject or a dispatch; and as long as a handler invocation has not
\* returned, recv is inside it and no later delivery has been handed over.
C17_TerminatesOrStalls ==
    /\ (pc # "idle") ~> (pc = "idle")
    /\ [](\A d \in Tags :
            Done(d) => AckFailed(d) \/ Discarded(d) \/ Count(d, "return") = 1)
    /\ [](\A d \in Running : d = Cur /\ pc = "handler")

C17_Witness ==
    /\ pc = "handler"
    /\ Running = {Cur}
    /\ Consuming
    /\ queue # <<>>

----------------------------------------------------------------------------
(* C18 *)

\* C18 as stated: a step of recv or of the handler leaves the fields of the
\* consumer and the package-level logger of package main as they were.
C18_NoSharedStateWritten ==
    [][ (Len(log') > Len(log) /\ log'[Len(log')].op # "close") =>
            consumer' = consumer /\ mainLog' = mainLog ]_vars

----------------------------------------------------------------------------
(* C19 *)

PostsOf(d) == {i \in 1..Len(posts) : posts[i].d = d}

\* The value strings of Bodies that are numerals.
Numerals == {"3.5"}

\* C19: at most one POST is sent per dispatched event; a POST is sent only
\* for an event that was dispatched, with QMS enabled, an endpoint that
\* parses and a numeric value, and carries that event's attribute and value;
\* with QMS disabled or a value that is not numeric the handler returns
\* without a POST and the event is not dispatched again.
C19_PostOnlyWhenEnabledAndNumeric ==
    /\ \A d \in Tags : Cardinality(PostsOf(d)) <= 1
    /\ \A i \in 1..Len(posts) :
          /\ Dispatched(posts[i].d)
          /\ config.QMSEnabled /\ config.endpointParses
          /\ posts[i].usage_value \in Numerals
          /\ posts[i].usage_value = UpdateOf(posts[i].d).value
          /\ posts[i].resource_name = UpdateOf(posts[i].d).attribute
    /\ \A d \in Tags :
          Count(d, "return") >= 1
          /\ (~config.QMSEnabled \/ UpdateOf(d).value \notin Numerals) =>
              /\ PostsOf(d) = {}
              /\ Count(d, "handler") = 1
              /\ ~InQueue(deliveries[d].msg)

C19_Witness ==
    \E d, e \in Tags :
        /\ Cardinality(PostsOf(d)) = 1
        /\ Count(e, "return") = 1
        /\ UpdateOf(e).value \notin Numerals
        /\ PostsOf(e) = {}

====
